---- MODULE Spec2Model ----
(***************************************************************************)
(* A model of the gerrit interactive shell (natanaeljr/gerrit):            *)
(*   - the process-wide command history and its scroll handles             *)
(*     (src/src/history.rs),                                               *)
(*   - the loading() progress indicator and its two callers                *)
(*     (src/src/util.rs, src/src/change.rs),                               *)
(*   - the key-event loop of cli::prompt (src/src/cli.rs),                 *)
(*   - str_rfind_last_word_separator and the word delete that uses it      *)
(*     (src/src/util.rs, src/src/cli.rs),                                  *)
(*   - SmartNewLine and the terminal's cursor and viewport                 *)
(*     (src/src/cli.rs, src/src/main.rs),                                  *)
(*   - initialize, the CliGuard it returns and the Drop that ends the      *)
(*     terminal session (src/src/cli.rs).                                  *)
(*                                                                         *)
(* A Rust String is a sequence of one-character strings; only ASCII is     *)
(* modelled, so a byte offset and a character offset are the same number.  *)
(* An Option<T> is a sequence of length 0 (None) or 1 (Some).              *)
(***************************************************************************)
EXTENDS Integers, Sequences, FiniteSets, TLC

VARIABLES
    \* ---- history.rs
    HISTORY,        \* the global Vec<String> behind the RwLock
    rwlock,         \* the RwLock itself: [writer |-> BOOLEAN, readers |-> Nat]
    hpc,            \* per handle/thread: where it is in which method
    curr_index,     \* per handle: HistoryHandle.curr_index
    harg,           \* per handle: the argument of the call in progress (add's new_line)
    hret,           \* per handle: what the last call returned (Option<String>)
    ups,            \* per handle: up_next calls since get() with no down_next between, -1 otherwise
    base,           \* per handle: HISTORY.len() when the handle was taken
    \* ---- util.rs loading() and change.rs callers
    loading_done,   \* the Arc<AtomicBool>
    caller,         \* which function called loading(): "query_changes" | "show_change"
    main_pc,        \* the primary thread's position
    worker_pc,      \* the spawned thread's position
    ticks,          \* "." glyphs on the indicator's line
    cleared,        \* the primary thread has executed Clear(CurrentLine)
    tick_after_clear, \* a "." glyph was written after that clear
    ticks_after_store, \* "." glyphs written since loading_done was stored true
    \* ---- cli.rs prompt()
    cmd_schema,     \* prompt's parameter: the command tree
    user_input,     \* the edit buffer
    last_prompt,    \* Option<String>: the buffer saved by the first ArrowUp
    suggestion_printed_below,
    prompt_index,   \* curr_index of prompt's own HistoryHandle
    returned,       \* Option<Vec<String>>: what prompt returned, None while in the loop
    key,            \* the key event the last loop iteration read
    printed,        \* what that iteration printed besides the prompt and the buffer
    keys,           \* key events read so far in the session
    arrow_run,      \* Option: the buffer before the current unbroken run of arrow
                    \* keys (ArrowUp presses, then ArrowDown presses) and the
                    \* run's phase
    screen,         \* the terminal as prompt writes to it: its height, the
                    \* cursor's row and the rows that show a suggestion or
                    \* message line; height 0 where the display is not followed
    cleared_below,  \* Option: what the clear_line_below call of the last
                    \* iteration found below the cursor and did to its row
    \* ---- util.rs str_rfind_last_word_separator and its use by word delete
    rfind_arg,      \* the string handed to the function
    rfind_index,    \* Option<usize>: what the function returned for it
    \* ---- cli.rs SmartNewLine and the terminal it writes to
    term_rows,      \* crossterm::terminal::size().1
    cursor_row,     \* crossterm::cursor::position().1
    scrolled,       \* lines the viewport has been scrolled up by so far
    term_cmd,       \* the command executed last, with its argument
    \* ---- cli.rs initialize / CliGuard / Drop
    raw_mode,       \* the terminal is in raw mode
    guard,          \* the CliGuard: "none" | "alive" | "dropped"
    frames,         \* calls in progress below the scope that holds the guard
    exit_path,      \* how that scope is ending: "running" | "return" | "error" | "panic"
    calls           \* calls made so far below that scope

hvars == <<HISTORY, rwlock, hpc, curr_index, harg, hret, ups, base>>
lvars == <<loading_done, caller, main_pc, worker_pc, ticks, cleared, tick_after_clear,
          ticks_after_store>>
pvars == <<cmd_schema, user_input, last_prompt, suggestion_printed_below,
           prompt_index, returned, key, printed, keys, arrow_run, screen,
           cleared_below>>
uvars == <<rfind_arg, rfind_index>>
tvars == <<term_rows, cursor_row, scrolled, term_cmd>>
gvars == <<raw_mode, guard, frames, exit_path, calls>>
vars == <<hvars, lvars, pvars, uvars, tvars, gvars>>

(***************************************************************************)
(* Bounds                                                                  *)
(***************************************************************************)
\* longest history the history specification builds
MaxHist == 2
\* threads holding a HistoryHandle
Handles == {1, 2}
\* the strings handed to HistoryHandle::add in the history specification
Lines == {<<"a">>, <<"b">>}

None == <<>>
Some(x) == <<x>>

Min(a, b) == IF a < b THEN a ELSE b

(***************************************************************************)
(* history.rs                                                              *)
(***************************************************************************)
\* Vec::get(i): None when i is out of range (0-based)
vec_get(v, i) == IF 0 <= i /\ i < Len(v) THEN Some(v[i + 1]) ELSE None

\* HistoryHandle::get: the index of a new handle
handle_get(history) == Len(history)

add_never_duplicate(history, new_line) == FALSE

\* HistoryHandle::add, lines 40-44: the early return
add_is_duplicate(history, new_line) ==
    /\ history # <<>>
    /\ new_line = history[Len(history)]

\* HistoryHandle::add as one call: the history afterwards
add(history, new_line) ==
    IF add_is_duplicate(history, new_line) THEN history ELSE Append(history, new_line)

up_next_below_zero(index, history) ==
    IF history = <<>>
    THEN [index |-> index, ret |-> None]
    ELSE [index |-> index - 1, ret |-> vec_get(history, index - 1)]

\* HistoryHandle::up_next: the new curr_index and the returned Option
up_next(index, history) ==
    IF index = 0 \/ history = <<>>
    THEN [index |-> index, ret |-> None]
    ELSE [index |-> index - 1, ret |-> vec_get(history, index - 1)]

down_next_past_end(index, history) ==
    IF index > Len(history)
    THEN [index |-> index, ret |-> None]
    ELSE [index |-> index + 1, ret |-> vec_get(history, index + 1)]

down_next_returns_current(index, history) ==
    IF index >= Len(history)
    THEN [index |-> index, ret |-> None]
    ELSE [index |-> index + 1, ret |-> vec_get(history, index)]

\* HistoryHandle::down_next: the new curr_index and the returned Option
down_next(index, history) ==
    IF index >= Len(history)
    THEN [index |-> index, ret |-> None]
    ELSE [index |-> index + 1, ret |-> vec_get(history, index + 1)]

\* RwLock::read / RwLock::write: when the call does not block
can_read(l) == ~l.writer
can_write_always(l) == TRUE
can_write(l) == ~l.writer /\ l.readers = 0
read_locked(l) == [l EXCEPT !.readers = @ + 1]
read_unlocked(l) == [l EXCEPT !.readers = @ - 1]
write_locked(l) == [l EXCEPT !.writer = TRUE]
write_unlocked(l) == [l EXCEPT !.writer = FALSE]

(***************************************************************************)
(* The history specification: threads that each hold a HistoryHandle and   *)
(* call its methods.  A method is two or three steps: the lock is taken,   *)
(* the body runs, and the guard is dropped on return.                      *)
(***************************************************************************)
InitHistoryVars ==
    /\ HISTORY = <<>>
    /\ rwlock = [writer |-> FALSE, readers |-> 0]
    /\ hpc = [h \in Handles |-> "none"]
    /\ curr_index = [h \in Handles |-> 0]
    /\ harg = [h \in Handles |-> None]
    /\ hret = [h \in Handles |-> None]
    /\ ups = [h \in Handles |-> -1]
    /\ base = [h \in Handles |-> 0]

\* HistoryHandle::get, line 29: HISTORY.read()
GetAcquire(h) ==
    /\ hpc[h] \in {"none", "idle"}
    /\ can_read(rwlock)
    /\ rwlock' = read_locked(rwlock)
    /\ hpc' = [hpc EXCEPT ![h] = "get"]
    /\ UNCHANGED <<HISTORY, curr_index, harg, hret, ups, base>>
    /\ UNCHANGED <<lvars, pvars, uvars, tvars, gvars>>

\* HistoryHandle::get, lines 30-33
GetBody(h) ==
    /\ hpc[h] = "get"
    /\ curr_index' = [curr_index EXCEPT ![h] = handle_get(HISTORY)]
    /\ base' = [base EXCEPT ![h] = Len(HISTORY)]
    /\ ups' = [ups EXCEPT ![h] = 0]
    /\ hret' = [hret EXCEPT ![h] = None]
    /\ rwlock' = read_unlocked(rwlock)
    /\ hpc' = [hpc EXCEPT ![h] = "idle"]
    /\ UNCHANGED <<HISTORY, harg>>
    /\ UNCHANGED <<lvars, pvars, uvars, tvars, gvars>>

\* HistoryHandle::add, line 39: HISTORY.write()
AddAcquire(h, new_line) ==
    /\ hpc[h] = "idle"
    /\ Len(HISTORY) < MaxHist \/ add_is_duplicate(HISTORY, new_line)
    /\ can_write(rwlock)
    /\ rwlock' = write_locked(rwlock)
    /\ harg' = [harg EXCEPT ![h] = Some(new_line)]
    /\ hpc' = [hpc EXCEPT ![h] = "add"]
    /\ UNCHANGED <<HISTORY, curr_index, hret, ups, base>>
    /\ UNCHANGED <<lvars, pvars, uvars, tvars, gvars>>

\* HistoryHandle::add, lines 40-44: compare with the last entry
AddCheck(h) ==
    /\ hpc[h] = "add"
    /\ IF add_is_duplicate(HISTORY, harg[h][1])
       THEN /\ rwlock' = write_unlocked(rwlock)
            /\ harg' = [harg EXCEPT ![h] = None]
            /\ hpc' = [hpc EXCEPT ![h] = "idle"]
       ELSE /\ hpc' = [hpc EXCEPT ![h] = "add_push"]
            /\ UNCHANGED <<rwlock, harg>>
    /\ UNCHANGED <<HISTORY, curr_index, hret, ups, base>>
    /\ UNCHANGED <<lvars, pvars, uvars, tvars, gvars>>

\* HistoryHandle::add, lines 45-46: push, and the guard drops
AddPush(h) ==
    /\ hpc[h] = "add_push"
    /\ HISTORY' = Append(HISTORY, harg[h][1])
    /\ rwlock' = write_unlocked(rwlock)
    /\ harg' = [harg EXCEPT ![h] = None]
    /\ hpc' = [hpc EXCEPT ![h] = "idle"]
    /\ UNCHANGED <<curr_index, hret, ups, base>>
    /\ UNCHANGED <<lvars, pvars, uvars, tvars, gvars>>

\* HistoryHandle::up_next, line 51: HISTORY.read()
UpAcquire(h) ==
    /\ hpc[h] = "idle"
    /\ can_read(rwlock)
    /\ rwlock' = read_locked(rwlock)
    /\ hpc' = [hpc EXCEPT ![h] = "up_next"]
    /\ UNCHANGED <<HISTORY, curr_index, harg, hret, ups, base>>
    /\ UNCHANGED <<lvars, pvars, uvars, tvars, gvars>>

\* HistoryHandle::up_next, lines 52-57
UpBody(h) ==
    /\ hpc[h] = "up_next"
    /\ LET r == up_next(curr_index[h], HISTORY)
       IN /\ curr_index' = [curr_index EXCEPT ![h] = r.index]
          /\ hret' = [hret EXCEPT ![h] = r.ret]
    /\ ups' = [ups EXCEPT ![h] = IF @ < 0 THEN @ ELSE Min(@ + 1, MaxHist + 1)]
    /\ rwlock' = read_unlocked(rwlock)
    /\ hpc' = [hpc EXCEPT ![h] = "idle"]
    /\ UNCHANGED <<HISTORY, harg, base>>
    /\ UNCHANGED <<lvars, pvars, uvars, tvars, gvars>>

\* HistoryHandle::down_next, line 62: HISTORY.read()
DownAcquire(h) ==
    /\ hpc[h] = "idle"
    /\ can_read(rwlock)
    /\ rwlock' = read_locked(rwlock)
    /\ hpc' = [hpc EXCEPT ![h] = "down_next"]
    /\ UNCHANGED <<HISTORY, curr_index, harg, hret, ups, base>>
    /\ UNCHANGED <<lvars, pvars, uvars, tvars, gvars>>

\* HistoryHandle::down_next, lines 63-68
DownBody(h) ==
    /\ hpc[h] = "down_next"
    /\ LET r == down_next(curr_index[h], HISTORY)
       IN /\ curr_index' = [curr_index EXCEPT ![h] = r.index]
          /\ hret' = [hret EXCEPT ![h] = r.ret]
    /\ ups' = [ups EXCEPT ![h] = -1]
    /\ rwlock' = read_unlocked(rwlock)
    /\ hpc' = [hpc EXCEPT ![h] = "idle"]
    /\ UNCHANGED <<HISTORY, harg, base>>
    /\ UNCHANGED <<lvars, pvars, uvars, tvars, gvars>>

HistoryNext ==
    \/ \E h \in Handles : GetAcquire(h)
    \/ \E h \in Handles : GetBody(h)
    \/ \E h \in Handles, new_line \in Lines : AddAcquire(h, new_line)
    \/ \E h \in Handles : AddCheck(h)
    \/ \E h \in Handles : AddPush(h)
    \/ \E h \in Handles : UpAcquire(h)
    \/ \E h \in Handles : UpBody(h)
    \/ \E h \in Handles : DownAcquire(h)
    \/ \E h \in Handles : DownBody(h)

(***************************************************************************)
(* util.rs loading() and its callers in change.rs                          *)
(***************************************************************************)
\* most "." glyphs counted on the indicator's line (the count saturates)
MaxTicks == 3

Callers == {"query_changes", "show_change"}

InitLoadingVars ==
    /\ loading_done = FALSE
    /\ caller \in Callers
    /\ main_pc = "start"
    /\ worker_pc = "none"
    /\ ticks = 0
    /\ cleared = FALSE
    /\ tick_after_clear = FALSE
    /\ ticks_after_store = 0

\* util::loading, lines 113-129, called at change.rs:96 / change.rs:174:
\* the flag is created false and the worker is spawned
Loading ==
    /\ main_pc = "start"
    /\ loading_done' = FALSE
    /\ worker_pc' = "warmup"
    /\ main_pc' = "request"
    /\ UNCHANGED <<caller, ticks, cleared, tick_after_clear, ticks_after_store>>
    /\ UNCHANGED <<hvars, pvars, uvars, tvars, gvars>>

\* change.rs:97 / change.rs:175-177: the collaborator call returns Ok
RequestOk ==
    /\ main_pc = "request"
    /\ main_pc' = "store"
    /\ UNCHANGED <<loading_done, caller, worker_pc, ticks, cleared, tick_after_clear, ticks_after_store>>
    /\ UNCHANGED <<hvars, pvars, uvars, tvars, gvars>>

\* change.rs:97 / change.rs:177: the collaborator call returns Err and unwrap() panics
RequestErr ==
    /\ main_pc = "request"
    /\ main_pc' = "panicked"
    /\ UNCHANGED <<loading_done, caller, worker_pc, ticks, cleared, tick_after_clear, ticks_after_store>>
    /\ UNCHANGED <<hvars, pvars, uvars, tvars, gvars>>

\* change.rs:98 / change.rs:178: loading_done.store(true, SeqCst)
StoreDone ==
    /\ main_pc = "store"
    /\ loading_done' = TRUE
    /\ main_pc' = "clear"
    /\ UNCHANGED <<caller, worker_pc, ticks, cleared, tick_after_clear, ticks_after_store>>
    /\ UNCHANGED <<hvars, pvars, uvars, tvars, gvars>>

\* change.rs:99 / change.rs:179: MoveToColumn(0), Clear(CurrentLine)
ClearLine ==
    /\ main_pc = "clear"
    /\ ticks' = 0
    /\ cleared' = TRUE
    /\ main_pc' = "render"
    /\ UNCHANGED <<loading_done, caller, worker_pc, tick_after_clear, ticks_after_store>>
    /\ UNCHANGED <<hvars, pvars, uvars, tvars, gvars>>

\* change.rs:101-126 / change.rs:181-206: the result is printed, Ok(CmdAction::Ok)
Render ==
    /\ main_pc = "render"
    /\ main_pc' = "returned"
    /\ UNCHANGED <<loading_done, caller, worker_pc, ticks, cleared, tick_after_clear, ticks_after_store>>
    /\ UNCHANGED <<hvars, pvars, uvars, tvars, gvars>>

\* util.rs:119: the warm-up sleep of 1000 ms ends
WorkerWarmedUp ==
    /\ worker_pc = "warmup"
    /\ worker_pc' = "check"
    /\ UNCHANGED <<loading_done, caller, main_pc, ticks, cleared, tick_after_clear, ticks_after_store>>
    /\ UNCHANGED <<hvars, pvars, uvars, tvars, gvars>>

WorkerCheck_ignores_flag ==
    /\ worker_pc = "check"
    /\ worker_pc' = "print"
    /\ UNCHANGED <<loading_done, caller, main_pc, ticks, cleared, tick_after_clear, ticks_after_store>>
    /\ UNCHANGED <<hvars, pvars, uvars, tvars, gvars>>

\* util.rs:120: while !this_loading_done.load(SeqCst)
WorkerCheck ==
    /\ worker_pc = "check"
    /\ worker_pc' = IF loading_done THEN "exited" ELSE "print"
    /\ UNCHANGED <<loading_done, caller, main_pc, ticks, cleared, tick_after_clear, ticks_after_store>>
    /\ UNCHANGED <<hvars, pvars, uvars, tvars, gvars>>

\* util.rs:123: execute!(writer, Print("."))
WorkerPrint ==
    /\ worker_pc = "print"
    /\ ticks' = Min(ticks + 1, MaxTicks)
    /\ tick_after_clear' = (tick_after_clear \/ cleared)
    /\ ticks_after_store' = IF loading_done THEN Min(ticks_after_store + 1, MaxTicks)
                          ELSE ticks_after_store
    /\ worker_pc' = "sleep"
    /\ UNCHANGED <<loading_done, caller, main_pc, cleared>>
    /\ UNCHANGED <<hvars, pvars, uvars, tvars, gvars>>

\* util.rs:124: the sleep of 200 ms ends
WorkerSlept ==
    /\ worker_pc = "sleep"
    /\ worker_pc' = "check"
    /\ UNCHANGED <<loading_done, caller, main_pc, ticks, cleared, tick_after_clear, ticks_after_store>>
    /\ UNCHANGED <<hvars, pvars, uvars, tvars, gvars>>

LoadingNext ==
    \/ Loading
    \/ RequestOk
    \/ RequestErr
    \/ StoreDone
    \/ ClearLine
    \/ Render
    \/ WorkerWarmedUp
    \/ WorkerCheck
    \/ WorkerPrint
    \/ WorkerSlept

(***************************************************************************)
(* Strings (Rust std) as cli.rs and util.rs use them                       *)
(***************************************************************************)
\* char::is_ascii_whitespace / char::is_whitespace on the modelled characters
is_whitespace(c) == c = " "

\* char::is_ascii_punctuation on the modelled characters
is_ascii_punctuation(c) == c \in {"-", ".", "?", ":", "$"}

\* str::chars().nth(n)
chars_nth(s, n) == vec_get(s, n)

\* str::starts_with
starts_with(s, prefix) ==
    /\ Len(prefix) <= Len(s)
    /\ SubSeq(s, 1, Len(prefix)) = prefix

\* str::ends_with(" ")
ends_with_space(s) == s # <<>> /\ s[Len(s)] = " "

insert_str_at_start(s, idx, string) == string \o s

\* String::insert_str(idx, string), idx a 0-based offset
insert_str(s, idx, string) ==
    SubSeq(s, 1, idx) \o string \o SubSeq(s, idx + 1, Len(s))

split_at_head(s, mid) == SubSeq(s, 1, mid)

\* str::split_at(mid).1
split_at_tail(s, mid) == SubSeq(s, mid + 1, Len(s))

\* String::split_off(at): what is left in the string
split_off_head(s, at) == SubSeq(s, 1, at)

\* String::pop: what is left in the string
pop(s) == IF s = <<>> THEN s ELSE SubSeq(s, 1, Len(s) - 1)

RECURSIVE trim_start(_)
\* str::trim_start
trim_start(s) ==
    IF s # <<>> /\ is_whitespace(s[1]) THEN trim_start(Tail(s)) ELSE s

RECURSIVE trim_end(_)
\* str::trim_end
trim_end(s) ==
    IF s # <<>> /\ is_whitespace(s[Len(s)]) THEN trim_end(pop(s)) ELSE s

\* str::trim
trim(s) == trim_end(trim_start(s))

RECURSIVE word_end(_, _)
\* the 1-based position of the last character of the word starting at position i
word_end(s, i) ==
    IF i < Len(s) /\ ~is_whitespace(s[i + 1]) THEN word_end(s, i + 1) ELSE i

RECURSIVE split_from(_, _)
\* str::split_whitespace from 1-based position i on, each word with its offset
\* (cli.rs:309-311 / 422-424: str.as_ptr() - user_input2.as_ptr())
split_from(s, i) ==
    IF i > Len(s) THEN <<>>
    ELSE IF is_whitespace(s[i]) THEN split_from(s, i + 1)
    ELSE LET j == word_end(s, i)
         IN <<[idx |-> i - 1, word |-> SubSeq(s, i, j)]>> \o split_from(s, j + 1)

\* user_input2.split_whitespace().map(|str| (offset, str))
split_whitespace(s) == split_from(s, 1)

has_end_whitespace_always(user_input2, word_idx, word_input) == TRUE

has_end_whitespace_never(user_input2, word_idx, word_input) == FALSE

\* cli.rs:316-319 / 434-437
has_end_whitespace(user_input2, word_idx, word_input) ==
    LET c == chars_nth(user_input2, word_idx + Len(word_input))
    IN c # None /\ is_whitespace(c[1])

(***************************************************************************)
(* util.rs: str_rfind_last_word_separator                                  *)
(***************************************************************************)
is_separator_whitespace_only(c) == is_whitespace(c)

\* util.rs:138: the predicate handed to rfind
is_separator(c) == is_ascii_punctuation(c) \/ is_whitespace(c)

\* str::rfind(pred) on the first len characters of s: Option<usize>
rfind_separator(s, len) ==
    LET hits == {i \in 0..(len - 1) : is_separator(s[i + 1])}
    IN IF hits = {} THEN None ELSE Some(CHOOSE i \in hits : \A j \in hits : j <= i)

\* usize::saturating_sub
saturating_sub(a, b) == IF a >= b THEN a - b ELSE 0

RECURSIVE rfind_loop(_, _, _)
\* util.rs:137-151, the while-let loop; str is always the first len characters
rfind_loop(s, len, prev_cursor_after) ==
    LET found == rfind_separator(s, len)
    IN IF found = None
       THEN [len |-> len, break_cursor |-> 0, prev_cursor_after |-> prev_cursor_after]
       ELSE LET cursor == found[1]
            IN IF cursor < saturating_sub(prev_cursor_after, 2)
               THEN [len |-> cursor, break_cursor |-> cursor + 1,
                     prev_cursor_after |-> prev_cursor_after]
               ELSE rfind_loop(s, cursor, cursor + 1)

str_rfind_without_empty_case(str_original) ==
    LET r == rfind_loop(str_original, Len(str_original), 0)
    IN IF r.prev_cursor_after = Len(str_original) THEN r.break_cursor
       ELSE r.prev_cursor_after

str_rfind_end_of_string(str_original) == Len(str_original)

\* util.rs:133-162
str_rfind_last_word_separator(str_original) ==
    LET r == rfind_loop(str_original, Len(str_original), 0)
    IN IF r.len = 0 THEN 0
       ELSE IF r.prev_cursor_after = Len(str_original) THEN r.break_cursor
       ELSE r.prev_cursor_after

\* longest string handed to str_rfind_last_word_separator
MaxStr == 5

\* the characters of those strings: a word character, whitespace, punctuation
StrChars == {"a", " ", "-"}

RECURSIVE StringsUpTo(_)
\* every string of at most n characters
StringsUpTo(n) ==
    IF n = 0 THEN {<<>>}
    ELSE LET shorter == StringsUpTo(n - 1)
         IN  shorter \cup {Append(s, c) : s \in shorter, c \in StrChars}

\* a caller holds some string and has not called the function yet
InitUtilVars ==
    /\ rfind_arg \in StringsUpTo(MaxStr)
    /\ rfind_index = None

\* util.rs:133-162: a call of the function on the string
StrRfindLastWordSeparator ==
    /\ rfind_index = None
    /\ rfind_index' = Some(str_rfind_last_word_separator(rfind_arg))
    /\ UNCHANGED <<rfind_arg, hvars, lvars, pvars, tvars, gvars>>

\* cli.rs:258-267: the word delete drops everything from the index on
WordDelete ==
    /\ rfind_index # None
    /\ rfind_arg # <<>>
    /\ rfind_arg' = split_off_head(rfind_arg, rfind_index[1])
    /\ rfind_index' = None
    /\ UNCHANGED <<hvars, lvars, pvars, tvars, gvars>>

UtilNext ==
    \/ StrRfindLastWordSeparator
    \/ WordDelete

(***************************************************************************)
(* The command tree (clap::Command) and util.rs's views of it              *)
(***************************************************************************)
\* clap::Arg: its possible values and whether it is required
Arg(possible_values, required) ==
    [possible_values |-> possible_values, required |-> required]

\* clap::Command: name, aliases, subcommands in declaration order, arguments
Command(name, aliases, subcommands, arguments) ==
    [name |-> name, aliases |-> aliases, subcommands |-> subcommands,
     arguments |-> arguments]

\* A tree of the shape of change::command() (change.rs:31-59), its words
\* shortened: "ab" is `show` (a required free-form ID), "aa" is `query`
\* (enumerated, optional values) and shares its first letter with "ab" as
\* `query` does with `quit`, "ba" is a mode with subcommands, one aliased
\* as `help` is by `?`.
CommandTree ==
    Command(<<"r">>, <<>>,
        << Command(<<"a", "a">>, <<>>, <<>>,
                   <<Arg(<< <<"a">>, <<"b", "a">> >>, FALSE)>>),
           Command(<<"a", "b">>, <<>>, <<>>, <<Arg(<<>>, TRUE)>>),
           Command(<<"b", "a">>, <<>>,
               << Command(<<"a">>, << <<"b">> >>, <<>>, <<>>) >>,
               <<>>) >>,
        <<>>)

\* the trees prompt is called with
Trees == {CommandTree}

Range(f) == {f[i] : i \in DOMAIN f}

\* Command::get_arguments().next()
first_argument(cmd) ==
    IF cmd.arguments = <<>> THEN None ELSE Some(cmd.arguments[1])

\* util::get_command_trie, util.rs:38-48: names and all aliases of the subcommands
get_command_trie(cmd_app) ==
    UNION {{c.name} \cup Range(c.aliases) : c \in Range(cmd_app.subcommands)}

\* util::get_arg_values_trie, util.rs:66-74
get_arg_values_trie(arg) == Range(arg.possible_values)

collect_matches_exact(trie, prefix) == {w \in trie : w = prefix}

\* TrieUtils::collect_matches, util.rs:26-33: predictive_search(prefix)
collect_matches(trie, prefix) == {w \in trie : starts_with(w, prefix)}

\* cli.rs:363-369 / 481-487: get_subcommands().find(name == cmd || alias == cmd)
find_subcommand(cmd_app, cmd) ==
    LET hits == {i \in DOMAIN cmd_app.subcommands :
                    \/ cmd_app.subcommands[i].name = cmd
                    \/ cmd \in Range(cmd_app.subcommands[i].aliases)}
    IN cmd_app.subcommands[CHOOSE i \in hits : \A j \in hits : i <= j]

(***************************************************************************)
(* The terminal in raw mode, as cli.rs writes to it                        *)
(***************************************************************************)
Max(a, b) == IF a > b THEN a ELSE b

\* the terminal as the commands see it
Terminal(rows, row, lines_scrolled) ==
    [rows |-> rows, row |-> row, scrolled |-> lines_scrolled]

\* crossterm::terminal::ScrollUp(n): the content moves up, the cursor stays
ScrollUp(term, n) == [term EXCEPT !.scrolled = @ + n]

\* crossterm::cursor::MoveUp(n): stops at the first row
MoveUp(term, n) == [term EXCEPT !.row = Max(@ - n, 0)]

\* crossterm::cursor::MoveDown(n): stops at the last row
MoveDown(term, n) == [term EXCEPT !.row = Min(@ + n, term.rows - 1)]

\* crossterm::cursor::MoveToNextLine(n): stops at the last row, never scrolls
MoveToNextLine(term, n) == [term EXCEPT !.row = Min(@ + n, term.rows - 1)]

\* crossterm::cursor::MoveToPreviousLine(n): stops at the first row
MoveToPreviousLine(term, n) == [term EXCEPT !.row = Max(@ - n, 0)]

plain_new_line(term, n) == MoveToNextLine(term, n)

\* cli.rs:208-217 (main.rs:121-129): SmartNewLine(n)
write_ansi(term, n) ==
    LET curr_row == term.row
        term_max_row == term.rows - 1
    IN  IF curr_row = term_max_row
        THEN MoveToNextLine(MoveUp(ScrollUp(term, n), n), n)
        ELSE MoveToNextLine(term, n)

\* prompt's terminal: height, cursor row, rows showing a suggestion or message
Display(rows, row, messages) == [rows |-> rows, row |-> row, messages |-> messages]

\* the display of a specification that does not follow it
NoDisplay == Display(0, 0, {})

\* the display after commands took its terminal to term: the cursor is on
\* term's row and the content has moved up by the lines term was scrolled
displayed(d, term) ==
    Display(d.rows, term.row,
            {r - term.scrolled : r \in d.messages} \cap (0..(d.rows - 1)))

\* the terminal the commands of one call start from
terminal_of(d) == Terminal(d.rows, d.row, 0)

\* queue!(writer, SmartNewLine(1))
queue_SmartNewLine(d) == displayed(d, write_ansi(terminal_of(d), 1))

\* Clear(ClearType::CurrentLine)
clear_current_line(d) == [d EXCEPT !.messages = @ \ {d.row}]

\* cli.rs:610-614, 644-648: a list of completions or a message is printed
\* on the cursor's row
print_line(d) == [d EXCEPT !.messages = @ \cup {d.row}]

\* cli.rs:632-640: MoveDown(1), Clear(CurrentLine), MoveUp(1)
clear_line_below(d) ==
    LET down == displayed(d, MoveDown(terminal_of(d), 1))
        erased == clear_current_line(down)
    IN  displayed(erased, MoveUp(terminal_of(erased), 1))

\* cli.rs:182-197: print_prompt, called with the cursor in column curr_col
print_prompt(d, curr_col_positive) ==
    IF curr_col_positive THEN clear_current_line(queue_SmartNewLine(d)) ELSE d

\* cli.rs:643-652: the message, then SmartNewLine(1)
print_invalid_input(d) == queue_SmartNewLine(print_line(d))

\* cli.rs:296-299, 340-343, 382-385: the list goes to the next line and the
\* cursor back by MoveToPreviousLine(1)
list_below(d) ==
    LET printed_list == print_line(queue_SmartNewLine(d))
    IN  displayed(printed_list, MoveToPreviousLine(terminal_of(printed_list), 1))

\* cli.rs:330-333: the message goes to the next line and the cursor back by
\* MoveToPreviousLine(2)
invalid_below(d) ==
    LET printed_message == print_invalid_input(queue_SmartNewLine(d))
    IN  displayed(printed_message,
                  MoveToPreviousLine(terminal_of(printed_message), 2))

\* cli.rs:540-541: ScrollUp(curr_row), MoveUp(curr_row)
scrolled_to_top(d) ==
    displayed(d, MoveUp(ScrollUp(terminal_of(d), d.row), d.row))

\* cli.rs:275-278, 289-292, 408-411: if suggestion_printed_below { clear_line_below }
cleared_if_printed(d, printed_below) ==
    IF printed_below THEN clear_line_below(d) ELSE d

\* the display an iteration leaves: d2 where the display is followed
shown(d, d2) == IF d.rows = 0 THEN d ELSE d2

\* whether the iteration for key event k calls clear_line_below
calls_clear_line_below(k, printed_below, buffer) ==
    /\ printed_below
    /\ \/ k \in {"Tab", "Enter"}
       \/ k \in {"Backspace", "AltBackspace"} /\ buffer # <<>>

\* what that call finds and does: whether the row below the cursor shows a
\* suggestion or message line, whether the cursor is on the last row, and
\* by how many rows the call leaves the cursor displaced
cleared_below_after(k, d, printed_below, buffer) ==
    IF d.rows > 0 /\ calls_clear_line_below(k, printed_below, buffer)
    THEN Some([message_below |-> (d.row + 1) \in d.messages,
               last_row |-> d.row = d.rows - 1,
               moved |-> clear_line_below(d).row - d.row])
    ELSE None

(***************************************************************************)
(* cli.rs: prompt()                                                        *)
(***************************************************************************)
\* key events read in one session (all invocations of prompt together)
MaxKeys == 7

\* the characters KeyCode::Char delivers
PromptChars == {"a", "b", " "}

hrest == <<rwlock, hpc, curr_index, harg, hret, ups, base>>

\* the loop variables of a walk, before its first token (cli.rs:304-308 / 416-421)
walk_start(schema, input) ==
    [kind |-> "walking", curr_cmd_schema |-> schema, user_input_offset |-> 0,
     new_user_input |-> input, cmd_arg_given |-> FALSE, args |-> <<>>,
     word_input |-> <<>>, cmd_matches |-> {}]

\* cli.rs:350-356 / 467-473: the match's remainder is spliced in after the word
walk_complete(st, word_idx, word_input, cmd) ==
    IF Len(word_input) < Len(cmd)
    THEN LET word_end_idx == word_idx + Len(word_input) + st.user_input_offset
             cmd_remainder == split_at_tail(cmd, Len(word_input))
         IN [st EXCEPT !.user_input_offset = @ + Len(cmd_remainder),
                       !.new_user_input = insert_str(@, word_end_idx, cmd_remainder)]
    ELSE st

\* cli.rs:360-370 / 478-488: the argument is given, or the walk descends
walk_advance(st, cmd_arg, cmd) ==
    IF cmd_arg # None
    THEN [st EXCEPT !.cmd_arg_given = TRUE]
    ELSE [st EXCEPT !.curr_cmd_schema = find_subcommand(@, cmd)]

\* cli.rs:322-326 / 440-444
walk_trie(st, cmd_arg) ==
    IF cmd_arg # None
    THEN get_arg_values_trie(cmd_arg[1])
    ELSE get_command_trie(st.curr_cmd_schema)

RECURSIVE enter_walk(_, _, _, _)
\* cli.rs:422-489: the for loop of the Enter arm from its k-th word on
enter_walk(user_input2, words, k, st) ==
    IF k > Len(words) THEN [st EXCEPT !.kind = "done"]
    ELSE
    LET word_idx == words[k].idx
        word_input == words[k].word
        cmd_arg == first_argument(st.curr_cmd_schema)
    IN  IF cmd_arg # None /\ cmd_arg[1].possible_values = <<>>
        THEN enter_walk(user_input2, words, k + 1,
                        [st EXCEPT !.args = Append(@, word_input),
                                   !.cmd_arg_given = TRUE])
        ELSE
        LET end_ws == has_end_whitespace(user_input2, word_idx, word_input)
            cmd_matches == collect_matches(walk_trie(st, cmd_arg), word_input)
        IN  IF cmd_matches = {} \/ (Cardinality(cmd_matches) > 1 /\ end_ws)
            THEN [st EXCEPT !.kind = "invalid", !.word_input = word_input,
                            !.cmd_matches = cmd_matches]
            ELSE IF Cardinality(cmd_matches) > 1 /\ ~end_ws
            THEN [st EXCEPT !.kind = "suggest", !.word_input = word_input,
                            !.cmd_matches = cmd_matches]
            ELSE
            LET cmd == CHOOSE c \in cmd_matches : TRUE
                st1 == walk_complete(st, word_idx, word_input, cmd)
                st2 == [st1 EXCEPT !.args = Append(@, cmd)]
            IN  enter_walk(user_input2, words, k + 1, walk_advance(st2, cmd_arg, cmd))

RECURSIVE tab_walk(_, _, _, _)
\* cli.rs:309-371: the for loop of the Tab arm from its k-th word on
tab_walk(user_input2, words, k, st) ==
    IF k > Len(words) THEN [st EXCEPT !.kind = "done"]
    ELSE
    LET word_idx == words[k].idx
        word_input == words[k].word
        cmd_arg == first_argument(st.curr_cmd_schema)
        end_ws == has_end_whitespace(user_input2, word_idx, word_input)
        cmd_matches == collect_matches(walk_trie(st, cmd_arg), word_input)
    IN  IF cmd_matches = {} \/ (Cardinality(cmd_matches) > 1 /\ end_ws)
        THEN [st EXCEPT !.kind = "invalid", !.word_input = word_input,
                        !.cmd_matches = cmd_matches]
        ELSE IF Cardinality(cmd_matches) > 1 /\ ~end_ws
        THEN [st EXCEPT !.kind = "suggest", !.word_input = word_input,
                        !.cmd_matches = cmd_matches]
        ELSE
        LET cmd == CHOOSE c \in cmd_matches : TRUE
            st1 == walk_complete(st, word_idx, word_input, cmd)
        IN  tab_walk(user_input2, words, k + 1, walk_advance(st1, cmd_arg, cmd))

enter_walked_matching_all(schema, input) ==
    tab_walk(input, split_whitespace(input), 1, walk_start(schema, input))

\* the whole walk of the Enter arm over the buffer
enter_walked(schema, input) ==
    enter_walk(input, split_whitespace(input), 1, walk_start(schema, input))

\* the whole walk of the Tab arm over the buffer
tab_walked(schema, input) ==
    tab_walk(input, split_whitespace(input), 1, walk_start(schema, input))

required_argument_never_missing(curr_cmd_schema, cmd_arg_given) == FALSE

\* cli.rs:497-498
required_argument_missing(curr_cmd_schema, cmd_arg_given) ==
    LET cli_arg == first_argument(curr_cmd_schema)
    IN cli_arg # None /\ cli_arg[1].required /\ ~cmd_arg_given

\* cli.rs:373-375: the Tab arm only lists what can follow
tab_browses(input, curr_cmd_schema) ==
    /\ ends_with_space(input)
    /\ \/ curr_cmd_schema.subcommands # <<>>
       \/ curr_cmd_schema.arguments # <<>>

\* cli.rs:239-245: prompt's locals before the first key event
InitPromptVars ==
    /\ cmd_schema \in Trees
    /\ user_input = <<>>
    /\ last_prompt = None
    /\ suggestion_printed_below = FALSE
    /\ prompt_index = 0
    /\ returned = None
    /\ key = "none"
    /\ printed = "none"
    /\ keys = 0
    /\ arrow_run = None
    /\ screen = NoDisplay
    /\ cleared_below = None

\* the run of arrow keys that key event k continues, starts or breaks
arrow_run_after(k, run, buffer) ==
    IF k = "ArrowUp"
    THEN IF run # None /\ run[1].phase = "up" THEN run
         ELSE Some([t |-> buffer, phase |-> "up"])
    ELSE IF k = "ArrowDown" /\ run # None
    THEN Some([run[1] EXCEPT !.phase = "down"])
    ELSE None

\* cli.rs:247: event::read() delivers key event k to the loop
KeyRead(k) ==
    /\ returned = None
    /\ keys < MaxKeys
    /\ key' = k
    /\ keys' = keys + 1
    /\ arrow_run' = arrow_run_after(k, arrow_run, user_input)
    /\ cleared_below' =
           cleared_below_after(k, screen, suggestion_printed_below, user_input)
    /\ UNCHANGED <<cmd_schema, hrest, lvars, uvars, tvars, gvars>>

\* cli.rs:238-245: the caller's loop calls prompt again after a return
PromptCall ==
    /\ returned # None
    /\ user_input' = <<>>
    /\ last_prompt' = None
    /\ suggestion_printed_below' = FALSE
    /\ prompt_index' = handle_get(HISTORY)
    /\ returned' = None
    /\ key' = "none"
    /\ printed' = "none"
    /\ arrow_run' = None
    /\ cleared_below' = None
    \* print_prompt at cli.rs:245 finds the cursor in column 0
    /\ screen' = shown(screen, print_prompt(screen, FALSE))
    /\ UNCHANGED <<cmd_schema, keys, HISTORY, hrest, lvars, uvars, tvars, gvars>>

\* cli.rs:249-280: Backspace, with ALT (word delete) or without
Backspace(alt) ==
    /\ KeyRead(IF alt THEN "AltBackspace" ELSE "Backspace")
    /\ IF user_input # <<>>
       THEN /\ user_input' =
                 IF alt
                 THEN split_off_head(user_input, str_rfind_last_word_separator(user_input))
                 ELSE pop(user_input)
            /\ suggestion_printed_below' = FALSE
       ELSE UNCHANGED <<user_input, suggestion_printed_below>>
    /\ screen' = shown(screen,
           cleared_if_printed(screen, user_input # <<>> /\ suggestion_printed_below))
    /\ printed' = "none"
    /\ UNCHANGED <<HISTORY, last_prompt, prompt_index, returned>>

tab_never_lists_commands(input) == FALSE

\* cli.rs:294: with nothing typed, Tab lists the commands of the root
tab_lists_commands(input) == input = <<>>

\* cli.rs:283-399: Tab
Tab ==
    /\ KeyRead("Tab")
    /\ LET st == tab_walked(cmd_schema, user_input)
           d == cleared_if_printed(screen, suggestion_printed_below)
       IN  IF tab_lists_commands(user_input)
           THEN /\ printed' = "completions"
                /\ suggestion_printed_below' = TRUE
                /\ screen' = shown(screen, list_below(d))
                /\ UNCHANGED user_input
           ELSE IF st.kind = "invalid"
           THEN /\ printed' = "invalid"
                /\ suggestion_printed_below' = TRUE
                /\ screen' = shown(screen, invalid_below(d))
                /\ UNCHANGED user_input
           ELSE IF st.kind = "suggest"
           THEN /\ printed' = "completions"
                /\ suggestion_printed_below' = TRUE
                /\ screen' = shown(screen, list_below(d))
                /\ UNCHANGED user_input
           ELSE IF tab_browses(user_input, st.curr_cmd_schema)
           THEN /\ printed' = "completions"
                /\ suggestion_printed_below' = TRUE
                /\ screen' = shown(screen, list_below(d))
                /\ UNCHANGED user_input
           ELSE IF user_input # st.new_user_input
           THEN /\ printed' = "line"
                /\ suggestion_printed_below' = FALSE
                /\ screen' = shown(screen, print_prompt(d, FALSE))
                /\ user_input' = Append(st.new_user_input, " ")
           ELSE /\ printed' = "none"
                /\ suggestion_printed_below' = FALSE
                /\ screen' = shown(screen, d)
                /\ UNCHANGED user_input
    /\ UNCHANGED <<HISTORY, last_prompt, prompt_index, returned>>

\* cli.rs:402-506: Enter
Enter ==
    /\ KeyRead("Enter")
    /\ suggestion_printed_below' = FALSE
    /\ LET st == enter_walked(cmd_schema, user_input)
           d == cleared_if_printed(screen, suggestion_printed_below)
           \* cli.rs:490-494: the line is reprinted, SmartNewLine(1), Clear(CurrentLine)
           entered == clear_current_line(queue_SmartNewLine(print_prompt(d, FALSE)))
       IN  IF user_input = <<>>
           THEN /\ printed' = "none"
                /\ screen' = shown(screen, print_prompt(d, TRUE))
                /\ UNCHANGED <<user_input, HISTORY, returned>>
           ELSE IF st.kind = "invalid"
           THEN /\ printed' = "invalid"
                /\ HISTORY' = add(HISTORY, st.new_user_input)
                /\ user_input' = <<>>
                /\ screen' = shown(screen,
                       print_prompt(print_invalid_input(queue_SmartNewLine(d)), FALSE))
                /\ UNCHANGED returned
           ELSE IF st.kind = "suggest"
           THEN /\ printed' = "completions"
                /\ screen' = shown(screen,
                       print_prompt(print_line(queue_SmartNewLine(d)), TRUE))
                /\ UNCHANGED <<user_input, HISTORY, returned>>
           ELSE /\ HISTORY' = add(HISTORY, trim(st.new_user_input))
                /\ IF required_argument_missing(st.curr_cmd_schema, st.cmd_arg_given)
                   THEN /\ printed' = "missing"
                        /\ user_input' = <<>>
                        /\ screen' = shown(screen,
                               print_prompt(queue_SmartNewLine(print_line(entered)), FALSE))
                        /\ UNCHANGED returned
                   ELSE /\ printed' = "none"
                        /\ returned' = Some(st.args)
                        /\ screen' = shown(screen, entered)
                        /\ UNCHANGED user_input
    /\ UNCHANGED <<last_prompt, prompt_index>>

CtrlC_forgets_snapshot ==
    /\ KeyRead("CtrlC")
    /\ printed' = "^C"
    /\ user_input' = <<>>
    /\ screen' = shown(screen, print_prompt(queue_SmartNewLine(screen), FALSE))
    /\ last_prompt' = None
    /\ UNCHANGED <<HISTORY, suggestion_printed_below, prompt_index, returned>>

\* cli.rs:509-518: Ctrl+C
CtrlC ==
    /\ KeyRead("CtrlC")
    /\ printed' = "^C"
    /\ user_input' = <<>>
    /\ screen' = shown(screen, print_prompt(queue_SmartNewLine(screen), FALSE))
    /\ UNCHANGED <<HISTORY, last_prompt, suggestion_printed_below, prompt_index, returned>>

CtrlD_whatever_the_buffer ==
    /\ KeyRead("CtrlD")
    /\ printed' = "^D"
    /\ returned' = Some(<< <<"e", "x", "i", "t">> >>)
    /\ screen' = shown(screen, queue_SmartNewLine(screen))
    /\ UNCHANGED <<HISTORY, user_input, last_prompt, suggestion_printed_below, prompt_index>>

\* cli.rs:521-531: Ctrl+D
CtrlD ==
    /\ KeyRead("CtrlD")
    /\ IF user_input = <<>>
       THEN /\ printed' = "^D"
            /\ returned' = Some(<< <<"e", "x", "i", "t">> >>)
            /\ screen' = shown(screen, queue_SmartNewLine(screen))
       ELSE /\ printed' = "none"
            /\ UNCHANGED <<returned, screen>>
    /\ UNCHANGED <<HISTORY, user_input, last_prompt, suggestion_printed_below, prompt_index>>

\* cli.rs:534-542: Ctrl+L scrolls the viewport; no variable of prompt changes
CtrlL ==
    /\ KeyRead("CtrlL")
    /\ printed' = "none"
    /\ screen' = shown(screen, scrolled_to_top(screen))
    /\ UNCHANGED <<HISTORY, user_input, last_prompt, suggestion_printed_below,
                   prompt_index, returned>>

\* cli.rs:545-562: ArrowUp
ArrowUp ==
    /\ KeyRead("ArrowUp")
    /\ LET r == up_next(prompt_index, HISTORY)
       IN  /\ prompt_index' = r.index
           /\ IF r.ret # None
              THEN /\ last_prompt' = IF last_prompt = None THEN Some(user_input)
                                     ELSE last_prompt
                   /\ user_input' = r.ret[1]
              ELSE UNCHANGED <<last_prompt, user_input>>
    /\ printed' = "none"
    /\ UNCHANGED <<HISTORY, suggestion_printed_below, returned>>
    /\ UNCHANGED screen

\* cli.rs:565-589: ArrowDown
ArrowDown ==
    /\ KeyRead("ArrowDown")
    /\ LET r == down_next(prompt_index, HISTORY)
       IN  /\ prompt_index' = r.index
           /\ IF r.ret # None
              THEN /\ user_input' = r.ret[1]
                   /\ UNCHANGED last_prompt
              ELSE IF last_prompt # None
              THEN /\ user_input' = last_prompt[1]
                   /\ last_prompt' = None
              ELSE UNCHANGED <<last_prompt, user_input>>
    /\ printed' = "none"
    /\ UNCHANGED <<HISTORY, suggestion_printed_below, returned>>
    /\ UNCHANGED screen

\* cli.rs:592-600: a character key
Character(c) ==
    /\ KeyRead("Character")
    /\ user_input' = Append(user_input, c)
    /\ printed' = "none"
    /\ UNCHANGED <<HISTORY, last_prompt, suggestion_printed_below, prompt_index, returned>>
    /\ UNCHANGED screen

\* cli.rs:247, 603: event::read() returns Err; no arm matches it but the
\* catch-all, and the loop reads again
ReadError ==
    /\ KeyRead("ReadError")
    /\ printed' = "none"
    /\ UNCHANGED <<HISTORY, user_input, last_prompt, suggestion_printed_below,
                   prompt_index, returned>>
    /\ UNCHANGED screen

\* cli.rs:603: any other event (a key no arm names, a release, a resize)
Other ==
    /\ KeyRead("Other")
    /\ printed' = "none"
    /\ UNCHANGED <<HISTORY, user_input, last_prompt, suggestion_printed_below,
                   prompt_index, returned>>
    /\ UNCHANGED screen

PromptNext ==
    \/ PromptCall
    \/ \E alt \in BOOLEAN : Backspace(alt)
    \/ Tab
    \/ Enter
    \/ CtrlC
    \/ CtrlD
    \/ CtrlL
    \/ ArrowUp
    \/ ArrowDown
    \/ \E c \in PromptChars : Character(c)
    \/ ReadError
    \/ Other

(***************************************************************************)
(* cli.rs: SmartNewLine, and the terminal in raw mode                      *)
(***************************************************************************)
\* tallest terminal
MaxRows == 4
\* largest argument of SmartNewLine
MaxN == 3
\* lines scrolled in one session
MaxScroll == 6

\* a terminal of some height with the cursor on some row
InitTermVars ==
    /\ term_rows \in 1..MaxRows
    /\ cursor_row \in 0..(term_rows - 1)
    /\ scrolled = 0
    /\ term_cmd = <<"none", 0>>

\* cli.rs:204-217: a SmartNewLine(n) is executed
SmartNewLine(n) ==
    /\ scrolled + n <= MaxScroll
    /\ LET term == write_ansi(Terminal(term_rows, cursor_row, scrolled), n)
       IN  /\ cursor_row' = term.row
           /\ scrolled' = term.scrolled
    /\ term_cmd' = <<"SmartNewLine", n>>
    /\ UNCHANGED <<term_rows, hvars, lvars, pvars, uvars, gvars>>

\* cli.rs:299, 333: back to the prompt's line after a suggestion was printed
BackToPromptLine(n) ==
    /\ LET term == MoveToPreviousLine(Terminal(term_rows, cursor_row, scrolled), n)
       IN  cursor_row' = term.row
    /\ term_cmd' = <<"MoveToPreviousLine", n>>
    /\ UNCHANGED <<term_rows, scrolled, hvars, lvars, pvars, uvars, gvars>>

\* cli.rs:540-541: Ctrl+L scrolls by the cursor's row and moves up by it
ClearScreen ==
    /\ scrolled + cursor_row <= MaxScroll
    /\ LET curr_row == cursor_row
           term == MoveUp(ScrollUp(Terminal(term_rows, cursor_row, scrolled),
                                   curr_row), curr_row)
       IN  /\ cursor_row' = term.row
           /\ scrolled' = term.scrolled
    /\ term_cmd' = <<"ClearScreen", cursor_row>>
    /\ UNCHANGED <<term_rows, hvars, lvars, pvars, uvars, gvars>>

TermNext ==
    \/ \E n \in 1..MaxN : SmartNewLine(n)
    \/ \E n \in 1..2 : BackToPromptLine(n)
    \/ ClearScreen

(***************************************************************************)
(* cli.rs: initialize, CliGuard, deinitialize, Drop                        *)
(***************************************************************************)
\* deepest nesting of calls below the scope that holds the guard
MaxDepth == 3
\* calls made below that scope in one run
MaxCalls == 8

\* the ways a scope ends: its last statement, a `?` on an Err, a panic
ExitPaths == {"return", "error", "panic"}

drops_unless_unwinding(path) == path \in {"return", "error"}

\* Rust runs Drop of a live local when its scope ends, on each of these paths
drops_on(path) == path \in ExitPaths

\* the process before main calls cli::initialize
InitGuardVars ==
    /\ raw_mode = FALSE
    /\ guard = "none"
    /\ frames = 0
    /\ exit_path = "running"
    /\ calls = 0

\* cli.rs:91-98: initialize enables raw mode and returns the guard
Initialize ==
    /\ guard = "none"
    /\ exit_path = "running"
    /\ raw_mode' = TRUE
    /\ guard' = "alive"
    /\ UNCHANGED <<frames, exit_path, calls, hvars, lvars, pvars, uvars, tvars>>

\* the holder of the guard, or a function it called, calls a function
Call ==
    /\ guard = "alive"
    /\ exit_path = "running"
    /\ frames < MaxDepth
    /\ calls < MaxCalls
    /\ frames' = frames + 1
    /\ calls' = calls + 1
    /\ UNCHANGED <<raw_mode, guard, exit_path, hvars, lvars, pvars, uvars, tvars>>

\* a called function returns to its caller
Return ==
    /\ guard = "alive"
    /\ exit_path = "running"
    /\ frames > 0
    /\ frames' = frames - 1
    /\ UNCHANGED <<raw_mode, guard, exit_path, calls, hvars, lvars, pvars, uvars, tvars>>

\* the scope of the guard reaches its end
ScopeReturns ==
    /\ guard = "alive"
    /\ exit_path = "running"
    /\ frames = 0
    /\ exit_path' = "return"
    /\ UNCHANGED <<raw_mode, guard, frames, calls, hvars, lvars, pvars, uvars, tvars>>

\* a `?` meets an Err (e.g. prompt's io::Result) at some depth
ErrorRaised ==
    /\ guard = "alive"
    /\ exit_path = "running"
    /\ exit_path' = "error"
    /\ UNCHANGED <<raw_mode, guard, frames, calls, hvars, lvars, pvars, uvars, tvars>>

\* an unwrap() meets an Err (e.g. change.rs:97) at some depth
Panicked ==
    /\ guard = "alive"
    /\ exit_path = "running"
    /\ exit_path' = "panic"
    /\ UNCHANGED <<raw_mode, guard, frames, calls, hvars, lvars, pvars, uvars, tvars>>

\* the error is returned, or the stack unwound, through one more function
Propagate ==
    /\ guard = "alive"
    /\ exit_path \in {"error", "panic"}
    /\ frames > 0
    /\ frames' = frames - 1
    /\ UNCHANGED <<raw_mode, guard, exit_path, calls, hvars, lvars, pvars, uvars, tvars>>

\* cli.rs:101-115: Drop for CliGuard calls deinitialize, which disables raw mode
Drop ==
    /\ guard = "alive"
    /\ frames = 0
    /\ drops_on(exit_path)
    /\ raw_mode' = FALSE
    /\ guard' = "dropped"
    /\ UNCHANGED <<frames, exit_path, calls, hvars, lvars, pvars, uvars, tvars>>

GuardNext ==
    \/ Initialize
    \/ Call
    \/ Return
    \/ ScopeReturns
    \/ ErrorRaised
    \/ Panicked
    \/ Propagate
    \/ Drop

(***************************************************************************)
(* Specifications                                                          *)
(***************************************************************************)
\* the variables of a part of the program that a specification leaves out
IdleHistoryVars == InitHistoryVars
IdleLoadingVars ==
    /\ loading_done = FALSE
    /\ caller = "none"
    /\ main_pc = "none"
    /\ worker_pc = "none"
    /\ ticks = 0
    /\ cleared = FALSE
    /\ tick_after_clear = FALSE
    /\ ticks_after_store = 0
IdlePromptVars ==
    /\ cmd_schema = CommandTree
    /\ user_input = <<>>
    /\ last_prompt = None
    /\ suggestion_printed_below = FALSE
    /\ prompt_index = 0
    /\ returned = None
    /\ key = "none"
    /\ printed = "none"
    /\ keys = 0
    /\ arrow_run = None
    /\ screen = NoDisplay
    /\ cleared_below = None

IdleUtilVars ==
    /\ rfind_arg = <<>>
    /\ rfind_index = None
IdleTermVars ==
    /\ term_rows = 1
    /\ cursor_row = 0
    /\ scrolled = 0
    /\ term_cmd = <<"none", 0>>
IdleGuardVars == InitGuardVars

\* threads calling HistoryHandle's methods
HistoryInit == InitHistoryVars /\ IdleLoadingVars /\ IdlePromptVars /\ IdleUtilVars /\ IdleTermVars /\ IdleGuardVars
SpecHistory == HistoryInit /\ [][HistoryNext]_vars

\* query_changes / show_change with the loading() worker
LoadingInit == IdleHistoryVars /\ InitLoadingVars /\ IdlePromptVars /\ IdleUtilVars /\ IdleTermVars /\ IdleGuardVars
SpecLoading == LoadingInit /\ [][LoadingNext]_vars

\* util.rs:116-126: the spawned thread is scheduled, and its sleeps end
WorkerFairness ==
    /\ WF_vars(WorkerWarmedUp)
    /\ WF_vars(WorkerCheck)
    /\ WF_vars(WorkerPrint)
    /\ WF_vars(WorkerSlept)

SpecLoadingFair == SpecLoading /\ WorkerFairness

\* a session of prompt() calls fed key events
Init == InitHistoryVars /\ IdleLoadingVars /\ InitPromptVars /\ IdleUtilVars /\ IdleTermVars /\ IdleGuardVars
Next == PromptNext
Spec == Init /\ [][Next]_vars

\* a tree as prompt accepts it (cli.rs:238 takes any clap::Command) in which
\* one command's name starts another's: `a` and `ab`, the second with a
\* subcommand of its own
PrefixTree ==
    Command(<<"r">>, <<>>,
        << Command(<<"a">>, <<>>, <<>>, <<>>),
           Command(<<"a", "b">>, <<>>,
               << Command(<<"b">>, <<>>, <<>>, <<>>),
                  Command(<<"b", "a">>, <<>>, <<>>, <<>>) >>,
               <<>>) >>,
        <<>>)

\* prompt called with either tree
InitAnyTreeVars ==
    /\ cmd_schema \in Trees \cup {PrefixTree}
    /\ user_input = <<>>
    /\ last_prompt = None
    /\ suggestion_printed_below = FALSE
    /\ prompt_index = 0
    /\ returned = None
    /\ key = "none"
    /\ printed = "none"
    /\ keys = 0
    /\ arrow_run = None
    /\ screen = NoDisplay
    /\ cleared_below = None

AnyTreeInit ==
    InitHistoryVars /\ IdleLoadingVars /\ InitAnyTreeVars /\ IdleUtilVars /\ IdleTermVars /\ IdleGuardVars
SpecAnyTree == AnyTreeInit /\ [][PromptNext]_vars

\* the terminals prompt is followed on: at least a row for the prompt and
\* one below it, the cursor on any row, no suggestion shown yet
InitScreenVars ==
    /\ cmd_schema \in Trees
    /\ user_input = <<>>
    /\ last_prompt = None
    /\ suggestion_printed_below = FALSE
    /\ prompt_index = 0
    /\ returned = None
    /\ key = "none"
    /\ printed = "none"
    /\ keys = 0
    /\ arrow_run = None
    /\ screen \in {Display(rows, row, {}) : rows \in 2..MaxRows, row \in 0..(MaxRows - 1)}
    /\ screen.row < screen.rows
    /\ cleared_below = None

\* prompt, with the terminal it writes to
ScreenInit ==
    InitHistoryVars /\ IdleLoadingVars /\ InitScreenVars /\ IdleUtilVars /\ IdleTermVars /\ IdleGuardVars
SpecScreen == ScreenInit /\ [][PromptNext]_vars

\* str_rfind_last_word_separator applied to strings, and the word delete
UtilInit ==
    IdleHistoryVars /\ IdleLoadingVars /\ IdlePromptVars /\ InitUtilVars /\ IdleTermVars /\ IdleGuardVars
SpecUtil == UtilInit /\ [][UtilNext]_vars

\* SmartNewLine and the other cursor commands on a terminal in raw mode
TermInit ==
    IdleHistoryVars /\ IdleLoadingVars /\ IdlePromptVars /\ IdleUtilVars /\ InitTermVars /\ IdleGuardVars
SpecTerm == TermInit /\ [][TermNext]_vars

\* the scope that holds the CliGuard, from initialize to the guard's drop;
\* the language runs a pending Drop and finishes a pending unwinding
GuardInit ==
    IdleHistoryVars /\ IdleLoadingVars /\ IdlePromptVars /\ IdleUtilVars /\ IdleTermVars
    /\ InitGuardVars
SpecGuard ==
    GuardInit /\ [][GuardNext]_vars /\ WF_vars(Propagate) /\ WF_vars(Drop)

(***************************************************************************)
(* Properties of the history (SpecHistory)                                 *)
(***************************************************************************)
Last(s) == s[Len(s)]

NoAdjacentDuplicates ==
    \A i \in 1..(Len(HISTORY) - 1) : HISTORY[i] # HISTORY[i + 1]

\* an add holding the lock whose line equals the last entry returns without a push
DuplicateAddReturns ==
    \A h \in Handles :
        (/\ hpc[h] = "add"
         /\ hpc'[h] # "add"
         /\ HISTORY # <<>>
         /\ harg[h] = Some(Last(HISTORY)))
        => (hpc'[h] = "idle" /\ HISTORY' = HISTORY)

\* C1: whatever adds are issued through whatever handles, HISTORY never holds
\* two equal entries next to each other, and an add of the line that is the
\* current last entry leaves the length of HISTORY unchanged.
C1_NoAdjacentEqualEntries ==
    [](NoAdjacentDuplicates) /\ [][DuplicateAddReturns]_vars

\* a full history, and an add of its last line holding the write lock
C1_Witness ==
    /\ Len(HISTORY) = 2
    /\ \E h \in Handles : hpc[h] = "add" /\ harg[h] = Some(Last(HISTORY))

\* C2: for every handle, in every state of every interleaving of get, add,
\* up_next and down_next calls, 0 <= curr_index <= HISTORY.len().
C2_IndexInRange ==
    \A h \in Handles : 0 <= curr_index[h] /\ curr_index[h] <= Len(HISTORY)

\* one handle scrolled down to the end of a history of two, another up to its start
C2_Witness ==
    /\ Len(HISTORY) = 2
    /\ \E h, g \in Handles :
        /\ hpc[h] = "idle" /\ ups[h] = -1 /\ curr_index[h] = 2
        /\ hpc[g] = "idle" /\ ups[g] > 2 /\ curr_index[g] = 0

\* the k-th up_next of a fresh handle taken at n entries, with no add since
UpNextStep(h) ==
    (/\ hpc[h] = "up_next"
     /\ hpc'[h] = "idle"
     /\ ups[h] >= 0
     /\ Len(HISTORY) = base[h])
    => LET k == ups'[h]
           n == base[h]
       IN  IF k <= n
           THEN hret'[h] = Some(HISTORY[n - k + 1])
           ELSE hret'[h] = None /\ curr_index'[h] = 0

\* down_next from index i of n entries
DownNextStep(h) ==
    (/\ hpc[h] = "down_next"
     /\ hpc'[h] = "idle")
    => LET i == curr_index[h]
           n == Len(HISTORY)
       IN  /\ i < n - 1 => hret'[h] = Some(HISTORY[i + 2]) /\ curr_index'[h] = i + 1
           /\ i = n - 1 => hret'[h] = None /\ curr_index'[h] = n
           /\ i = n => hret'[h] = None /\ curr_index'[h] = i

\* C3: with n entries and a fresh handle, and no add in between, the k-th
\* up_next for k <= n returns entry n-k (0-based) and every further one returns
\* None with the index at 0; down_next from i < n-1 returns entry i+1, from n-1
\* returns None and moves the index to n, and at n returns None and leaves the
\* index alone.
C3_ScrollReturns ==
    [][\A h \in Handles : UpNextStep(h) /\ DownNextStep(h)]_vars

\* the second up_next of a handle taken at two entries returned the oldest entry
C3_Witness ==
    \E h \in Handles :
        /\ hpc[h] = "idle"
        /\ base[h] = 2 /\ Len(HISTORY) = 2
        /\ ups[h] = 2
        /\ hret[h] = Some(HISTORY[1])
        /\ curr_index[h] = 0

(***************************************************************************)
(* Properties of loading() and its callers (SpecLoading)                   *)
(***************************************************************************)
\* C4: in query_changes and show_change, under every interleaving, the worker
\* writes no tick after the primary thread has cleared the current line.
C4_NoTickAfterClear == ~tick_after_clear

(***************************************************************************)
(* Properties of prompt() (Spec)                                           *)
(***************************************************************************)
\* the step is the loop iteration that handles key event k
Handles_Key(k) == returned = None /\ keys' = keys + 1 /\ key' = k

\* the last iteration was an Enter that rejected the line
EnterRejected == key = "Enter" /\ printed \in {"invalid", "missing"}

\* C5: after a rejected Enter, an ArrowUp pressed next in the same invocation
\* sets the buffer to the line recorded for that rejection, whatever the
\* history was before.
C5_ArrowUpRecallsRejectedLine ==
    [][(EnterRejected /\ Handles_Key("ArrowUp"))
        => user_input' = Last(HISTORY)]_vars

\* C6: every line Enter rejects is recorded without leading or trailing
\* whitespace.
C6_RejectedLineIsTrimmed ==
    EnterRejected =>
        LET line == Last(HISTORY)
        IN  line # <<>> => (line[1] # " " /\ line[Len(line)] # " ")

(***************************************************************************)
(* What the claims about Tab and Enter mean by a token's matches: every    *)
(* entry of the vocabulary at the token's tree position that starts with   *)
(* the token.  Stated here on its own, apart from the walks of cli.rs.     *)
(***************************************************************************)
IsPrefixOf(p, w) ==
    /\ Len(p) <= Len(w)
    /\ \A i \in 1..Len(p) : p[i] = w[i]

\* the vocabulary at a tree position: the enumerated values of its argument,
\* or the names and aliases of its children
VocabularyAt(node) ==
    IF node.arguments # <<>>
    THEN Range(node.arguments[1].possible_values)
    ELSE UNION {{c.name} \cup Range(c.aliases) : c \in Range(node.subcommands)}

MatchesAt(node, token) == {w \in VocabularyAt(node) : IsPrefixOf(token, w)}

\* the argument at this position takes any token as its value
FreeFormAt(node) ==
    node.arguments # <<>> /\ node.arguments[1].possible_values = <<>>

\* the token at 0-based offset idx is followed by a whitespace character
FollowedByWhitespace(buffer, idx, token) ==
    /\ idx + Len(token) + 1 <= Len(buffer)
    /\ buffer[idx + Len(token) + 1] = " "

RECURSIVE Resolve(_, _, _, _)
\* the resolution of the buffer's tokens from the k-th on: how it ends, the
\* canonical tokens, the node reached, whether an argument was supplied and
\* whether a token was taken verbatim
Resolve(buffer, tokens, k, r) ==
    IF k > Len(tokens) THEN [r EXCEPT !.outcome = "resolved"]
    ELSE
    LET token == tokens[k].word
        matches == MatchesAt(r.node, token)
    IN  IF FreeFormAt(r.node)
        THEN Resolve(buffer, tokens, k + 1,
                     [r EXCEPT !.canonical = Append(@, token),
                               !.supplied = TRUE, !.verbatim = TRUE])
        ELSE IF matches = {} THEN [r EXCEPT !.outcome = "unknown"]
        ELSE IF Cardinality(matches) > 1
        THEN [r EXCEPT !.outcome =
                 IF FollowedByWhitespace(buffer, tokens[k].idx, token)
                 THEN "ambiguous" ELSE "suspended"]
        ELSE
        LET m == CHOOSE w \in matches : TRUE
        IN  Resolve(buffer, tokens, k + 1,
                [r EXCEPT !.canonical = Append(@, m),
                          !.supplied = @ \/ r.node.arguments # <<>>,
                          !.node = IF r.node.arguments # <<>> THEN @
                                   ELSE find_subcommand(@, m)])

Resolution(tree, buffer) ==
    Resolve(buffer, split_whitespace(buffer), 1,
            [outcome |-> "walking", canonical |-> <<>>, node |-> tree,
             supplied |-> FALSE, verbatim |-> FALSE])

\* the node reached has a required argument that no token supplied
MissingRequiredArgument(r) ==
    /\ r.outcome = "resolved"
    /\ r.node.arguments # <<>>
    /\ r.node.arguments[1].required
    /\ ~r.supplied

\* C7: an Enter rejected as UnknownToken, AmbiguousInput or
\* MissingRequiredArgument does not return: the loop goes on with an empty
\* buffer and no token sequence goes to the caller.
C7_RejectedEnterStaysInEditing ==
    [][(/\ Handles_Key("Enter")
        /\ user_input # <<>>
        /\ LET r == Resolution(cmd_schema, user_input)
           IN  r.outcome \in {"unknown", "ambiguous"} \/ MissingRequiredArgument(r))
       => (returned' = None /\ user_input' = <<>>)]_vars

\* Enter on `ab` alone (the command with the required argument) was rejected
C7_Witness ==
    /\ key = "Enter"
    /\ printed = "missing"
    /\ Last(HISTORY) = <<"a", "b">>
    /\ user_input = <<>>
    /\ returned = None

\* C8: Enter on a buffer without trailing whitespace, every token of which has
\* exactly one match at its tree position and whose final node lacks no
\* required argument, returns the matched entries in order, one per token.
C8_EnterReturnsMatchedEntries ==
    [][(/\ Handles_Key("Enter")
        /\ user_input # <<>>
        /\ Last(user_input) # " "
        /\ LET r == Resolution(cmd_schema, user_input)
           IN  r.outcome = "resolved" /\ ~r.verbatim /\ ~MissingRequiredArgument(r))
       => returned' = Some(Resolution(cmd_schema, user_input).canonical)]_vars

\* `b a` was entered and resolved to the entries `ba`, `a`
C8_Witness ==
    /\ key = "Enter"
    /\ user_input = <<"b", " ", "a">>
    /\ returned = Some(<< <<"b", "a">>, <<"a">> >>)

\* C9: Enter on a buffer whose walked token has more than one match and is not
\* followed by whitespace does not return, leaves the buffer as it is and adds
\* nothing to the history.
C9_AmbiguousEnterSuspends ==
    [][(/\ Handles_Key("Enter")
        /\ user_input # <<>>
        /\ Resolution(cmd_schema, user_input).outcome = "suspended")
       => (returned' = None /\ user_input' = user_input /\ HISTORY' = HISTORY)]_vars

\* Enter on `a`, which `aa` and `ab` both start with, listed the two
C9_Witness ==
    /\ key = "Enter"
    /\ printed = "completions"
    /\ user_input = <<"a">>
    /\ returned = None
    /\ HISTORY = <<>>

\* the buffer is one token and nothing else
SingleToken(buffer) ==
    /\ buffer # <<>>
    /\ \A i \in 1..Len(buffer) : buffer[i] # " "

\* C10 as stated: for every single-token buffer p with exactly one match m in
\* the root vocabulary, p = m included, Tab leaves the buffer m and one space.
C10_TabCompletesEveryUniqueMatch ==
    [][(/\ Handles_Key("Tab")
        /\ SingleToken(user_input)
        /\ Cardinality(MatchesAt(cmd_schema, user_input)) = 1)
       => \E m \in MatchesAt(cmd_schema, user_input) :
              user_input' = Append(m, " ")]_vars

\* C10 amended: for every single-token buffer p with exactly one match m in the
\* root vocabulary, Tab leaves the buffer m and one space when p is a proper
\* prefix of m, and leaves the buffer p, with no space added, when p = m.
C10_TabCompletesProperPrefix ==
    [][(/\ Handles_Key("Tab")
        /\ SingleToken(user_input)
        /\ Cardinality(MatchesAt(cmd_schema, user_input)) = 1)
       => \E m \in MatchesAt(cmd_schema, user_input) :
              IF user_input # m
              THEN user_input' = Append(m, " ")
              ELSE user_input' = user_input]_vars

\* Tab on `b` completed the buffer to `ba` and a space
C10_Witness ==
    /\ key = "Tab"
    /\ printed = "line"
    /\ keys = 2
    /\ user_input = <<"b", "a", " ">>

\* C11: Tab is idempotent. When Tab has changed the buffer to B, the Tab
\* pressed next leaves the buffer equal to B, and B resolves to the same
\* canonical tokens as the buffer before the first Tab.
C11_TabIsIdempotent ==
    [][/\ (Handles_Key("Tab") /\ user_input' # user_input)
           => LET before == Resolution(cmd_schema, user_input)
                  after == Resolution(cmd_schema, user_input')
              IN  /\ after.outcome = before.outcome
                  /\ after.canonical = before.canonical
       /\ (key = "Tab" /\ printed = "line" /\ Handles_Key("Tab"))
           => user_input' = user_input]_vars

\* `aa b` was completed to `aa ba ` by one Tab and a second Tab left it so
C11_Witness ==
    /\ key = "Tab"
    /\ keys = 6
    /\ printed = "completions"
    /\ user_input = <<"a", "a", " ", "b", "a", " ">>

\* C12: CtrlD returns if and only if the buffer is empty.  With an empty
\* buffer it returns exactly ["exit"] and adds nothing to the history; with a
\* non-empty buffer it does not return and changes neither the buffer, the
\* history, the scroll index nor the snapshot.
C12_CtrlDExitsOnlyOnEmptyBuffer ==
    [][Handles_Key("CtrlD")
       => IF user_input = <<>>
          THEN /\ returned' = Some(<< <<"e", "x", "i", "t">> >>)
               /\ HISTORY' = HISTORY
          ELSE /\ returned' = None
               /\ user_input' = user_input
               /\ HISTORY' = HISTORY
               /\ prompt_index' = prompt_index
               /\ last_prompt' = last_prompt]_vars

\* the fourth key event was a CtrlD that found the buffer empty and returned
\* ["exit"], the history still without an entry
C12_Witness ==
    /\ key = "CtrlD"
    /\ keys = 4
    /\ user_input = <<>>
    /\ returned = Some(<< <<"e", "x", "i", "t">> >>)
    /\ HISTORY = <<>>

\* the buffer ends with whitespace, every token resolves, and the node reached
\* still has children or an argument that no token supplied
BrowsableAfterWhitespace(tree, buffer) ==
    /\ buffer # <<>>
    /\ Last(buffer) = " "
    /\ LET r == Resolution(tree, buffer)
       IN  /\ r.outcome = "resolved"
           /\ \/ r.node.subcommands # <<>>
              \/ (r.node.arguments # <<>> /\ ~r.supplied)

\* C13 amended: Enter on such a buffer does not browse.  It returns the
\* canonical tokens of the buffer, unless the node reached has a required
\* argument that no token supplied: then it does not return and empties the
\* buffer.
C13_EnterFinalizesBrowsableBuffer ==
    [][(Handles_Key("Enter") /\ BrowsableAfterWhitespace(cmd_schema, user_input))
       => LET r == Resolution(cmd_schema, user_input)
          IN  IF MissingRequiredArgument(r)
              THEN returned' = None /\ user_input' = <<>>
              ELSE returned' = Some(r.canonical)]_vars

\* Enter on `ba `, a command with a subcommand, returned ["ba"]
C13_Witness ==
    /\ key = "Enter"
    /\ user_input = <<"b", "a", " ">>
    /\ returned = Some(<< <<"b", "a">> >>)

\* C13 as stated: Enter on a buffer that ends with whitespace, every token of
\* which resolves, at a node that still has children or an argument no token
\* supplied, only lists what can follow: it does not return.
C13_EnterOnlyBrowses ==
    [][(/\ Handles_Key("Enter")
        /\ user_input # <<>>
        /\ Last(user_input) = " "
        /\ LET r == Resolution(cmd_schema, user_input)
           IN  /\ r.outcome = "resolved"
               /\ \/ r.node.subcommands # <<>>
                  \/ (r.node.arguments # <<>> /\ ~r.supplied))
       => returned' = None]_vars

\* C14 as stated: Tab on an empty buffer changes neither the buffer, the
\* suggestion_printed_below flag, the history nor the scroll cursor and
\* displays nothing; Enter on an empty buffer does not return, leaves the
\* buffer empty and adds nothing to the history.
C14_TabOnEmptyBufferIsNoOp ==
    [][/\ (Handles_Key("Tab") /\ user_input = <<>>)
           => /\ user_input' = <<>>
              /\ suggestion_printed_below' = suggestion_printed_below
              /\ HISTORY' = HISTORY
              /\ prompt_index' = prompt_index
              /\ printed' = "none"
       /\ (Handles_Key("Enter") /\ user_input = <<>>)
           => /\ returned' = None
              /\ user_input' = <<>>
              /\ HISTORY' = HISTORY]_vars

\* C14 amended: Tab on an empty buffer changes neither the buffer, the history
\* nor the scroll cursor, but it displays the list of commands below the
\* prompt and sets suggestion_printed_below; Enter on an empty buffer does not
\* return, leaves the buffer empty and adds nothing to the history.
C14_TabOnEmptyBufferListsCommands ==
    [][/\ (Handles_Key("Tab") /\ user_input = <<>>)
           => /\ user_input' = <<>>
              /\ suggestion_printed_below' = TRUE
              /\ HISTORY' = HISTORY
              /\ prompt_index' = prompt_index
              /\ printed' = "completions"
       /\ (Handles_Key("Enter") /\ user_input = <<>>)
           => /\ returned' = None
              /\ user_input' = <<>>
              /\ HISTORY' = HISTORY]_vars

\* Tab was pressed as the first key, on the empty buffer, and listed the
\* commands
C14_Witness ==
    /\ key = "Tab"
    /\ keys = 1
    /\ user_input = <<>>
    /\ printed = "completions"
    /\ suggestion_printed_below

\* C15: after every Backspace key event, plain or with ALT, whatever the
\* buffer holds (nothing included), suggestion_printed_below is false.
C15_BackspaceUnsetsSuggestionFlag ==
    [][(Handles_Key("Backspace") \/ Handles_Key("AltBackspace"))
       => suggestion_printed_below' = FALSE]_vars

(***************************************************************************)
(* Properties of str_rfind_last_word_separator (SpecUtil)                  *)
(***************************************************************************)
\* a separator character: ASCII punctuation or whitespace
SeparatorChar(c) == c \in {" ", "-", ".", "?", ":", "$"}

\* the function has returned for the string
Returned(s, index) == rfind_arg = s /\ rfind_index = Some(index)

\* the step is the word delete that follows a call
WordDeleteStep == rfind_index # None /\ rfind_index' = None

\* s ends with exactly one separator that a word immediately precedes
EndsWithWordAndOneSeparator(s) ==
    /\ Len(s) >= 2
    /\ SeparatorChar(s[Len(s)])
    /\ ~SeparatorChar(s[Len(s) - 1])

\* how many characters precede the word that ends at position Len(s) - 1
BeforeLastWord(s) ==
    LET starts == {i \in 1..(Len(s) - 1) :
                      \A j \in i..(Len(s) - 1) : ~SeparatorChar(s[j])}
    IN  (CHOOSE i \in starts : \A j \in starts : i <= j) - 1

\* C16 as stated: for every string that ends with exactly one separator
\* immediately preceded by a word, the function returns len - 1, and the word
\* delete removes that separator only.
C16_RemovesOnlyTrailingSeparator ==
    /\ [](EndsWithWordAndOneSeparator(rfind_arg) /\ rfind_index # None
            => rfind_index = Some(Len(rfind_arg) - 1))
    /\ [][(WordDeleteStep /\ EndsWithWordAndOneSeparator(rfind_arg))
            => rfind_arg' = SubSeq(rfind_arg, 1, Len(rfind_arg) - 1)]_vars

\* C16 amended: for every such string the function returns the index at which
\* the word before the separator starts, or 0 when fewer than two characters
\* precede that word, and the word delete removes everything from that index
\* on: the separator together with the word before it.
C16_RemovesWordAndTrailingSeparator ==
    /\ [](EndsWithWordAndOneSeparator(rfind_arg) /\ rfind_index # None
            => rfind_index = Some(IF BeforeLastWord(rfind_arg) < 2 THEN 0
                                  ELSE BeforeLastWord(rfind_arg)))
    /\ [][(WordDeleteStep /\ EndsWithWordAndOneSeparator(rfind_arg))
            => rfind_arg' = SubSeq(rfind_arg, 1,
                                   IF BeforeLastWord(rfind_arg) < 2 THEN 0
                                   ELSE BeforeLastWord(rfind_arg))]_vars

\* the function returned 2 for `a-a `, the index at which the last word starts
C16_Witness == Returned(<<"a", "-", "a", " ">>, 2)

\* C17: the function returns 0 for the empty string, for every string without
\* a separator and for every string of separators only.
C17_ZeroWithoutWordBoundary ==
    (/\ rfind_index # None
     /\ \/ \A i \in 1..Len(rfind_arg) : ~SeparatorChar(rfind_arg[i])
        \/ \A i \in 1..Len(rfind_arg) : SeparatorChar(rfind_arg[i]))
    => rfind_index = Some(0)

\* the function returned 0 for `- -`, a string of separators only
C17_Witness == Returned(<<"-", " ", "-">>, 0)

\* the last position of s that holds a separator
LastRunEnd(s) ==
    LET seps == {i \in 1..Len(s) : SeparatorChar(s[i])}
    IN  CHOOSE i \in seps : \A j \in seps : j <= i

\* the first position of the maximal run of separators that ends there
LastRunStart(s) ==
    LET starts == {i \in 1..LastRunEnd(s) :
                      \A j \in i..LastRunEnd(s) : SeparatorChar(s[j])}
    IN  CHOOSE i \in starts : \A j \in starts : i <= j

\* C18: for every string in which a non-separator character occurs before the
\* last maximal run of separators, unless that run is a single separator at
\* the very end, the function returns the 0-based start index of that run
\* plus one.
C18_ReturnsLastRunStartPlusOne ==
    (/\ rfind_index # None
     /\ \E i \in 1..Len(rfind_arg) : SeparatorChar(rfind_arg[i])
     /\ \E i \in 1..(LastRunStart(rfind_arg) - 1) : ~SeparatorChar(rfind_arg[i])
     /\ ~(/\ LastRunStart(rfind_arg) = LastRunEnd(rfind_arg)
          /\ LastRunEnd(rfind_arg) = Len(rfind_arg)))
    => rfind_index = Some((LastRunStart(rfind_arg) - 1) + 1)

(***************************************************************************)
(* Properties of SmartNewLine (SpecTerm)                                   *)
(***************************************************************************)
\* the step executes SmartNewLine(n)
SmartNewLineStep(n) == term_cmd' = <<"SmartNewLine", n>>

\* the content line the cursor is on, counted from the first line ever shown
ContentLine(lines_scrolled, row) == lines_scrolled + row

\* C19: SmartNewLine(1) executed with the cursor on row r of a terminal whose
\* last row is max_row leaves the cursor on row min(r + 1, max_row) and
\* scrolls the viewport up by exactly 1 if and only if r = max_row.
C19_SmartNewLineOne ==
    [][SmartNewLineStep(1)
       => LET max_row == term_rows - 1
          IN  /\ cursor_row' = (IF cursor_row + 1 < max_row THEN cursor_row + 1
                                ELSE max_row)
              /\ scrolled' = scrolled + (IF cursor_row = max_row THEN 1 ELSE 0)]_vars

\* SmartNewLine(1) on the last row of a terminal of 3 rows scrolled by one
\* line and left the cursor on the last row
C19_Witness ==
    /\ term_cmd = <<"SmartNewLine", 1>>
    /\ term_rows = 3
    /\ cursor_row = 2
    /\ scrolled = 1

\* C20: for every n >= 1 and every row the cursor starts on, SmartNewLine(n)
\* leaves the cursor exactly n content lines below the line it started on.
C20_SmartNewLineAdvancesByN ==
    [][\A n \in 1..MaxN :
          SmartNewLineStep(n)
          => ContentLine(scrolled', cursor_row') = ContentLine(scrolled, cursor_row) + n]_vars

C22_ReadErrorIsReturned ==
    [][Handles_Key("ReadError") => returned' # None]_vars

(***************************************************************************)
(* Properties of the collaborator call under loading() (SpecLoading)       *)
(***************************************************************************)
\* the step is the collaborator call coming back with a failure
RequestFailsStep == main_pc = "request" /\ main_pc' \notin {"request", "store"}

\* C23: when the collaborator call fails, the indicator's flag is set and the
\* function goes on to return to its caller; it does not abort.
C23_FailedRequestStopsIndicator ==
    [][RequestFailsStep => (loading_done' /\ main_pc' # "panicked")]_vars

\* the step is the ArrowDown press on which the scroll index passes the last
\* entry, in a run of ArrowUp presses followed by ArrowDown presses
ArrowDownPassesLastEntry ==
    /\ Handles_Key("ArrowDown")
    /\ arrow_run # None
    /\ HISTORY # <<>>
    /\ prompt_index' = Len(HISTORY)

\* C24: with a non-empty history and buffer text t, ArrowUp presses followed
\* by ArrowDown presses until the scroll index passes the last entry, no
\* other key in between, restore the buffer to t and clear the snapshot; and
\* an ArrowUp never overwrites a snapshot already taken.
C24_ArrowRoundTripRestoresBuffer ==
    [][/\ ArrowDownPassesLastEntry
           => (user_input' = arrow_run[1].t /\ last_prompt' = None)
       /\ (Handles_Key("ArrowUp") /\ last_prompt # None)
           => last_prompt' = last_prompt]_vars

\* C25: CtrlC never exits.  It empties the buffer, does not return, and
\* leaves the history, the scroll index and the snapshot as they are, so that
\* an ArrowDown pressed right after it that passes the last entry still
\* restores a snapshot taken before it.
C25_CtrlCOnlyClearsBuffer ==
    [][/\ Handles_Key("CtrlC")
           => /\ user_input' = <<>>
              /\ returned' = None
              /\ HISTORY' = HISTORY
              /\ prompt_index' = prompt_index
              /\ last_prompt' = last_prompt
       /\ (/\ key = "CtrlC"
           /\ Handles_Key("ArrowDown")
           /\ last_prompt # None
           /\ prompt_index' = Len(HISTORY))
           => (user_input' = last_prompt[1] /\ last_prompt' = None)]_vars

\* CtrlC emptied a buffer recalled from the history while the snapshot `a`
\* taken by the ArrowUp before it is still pending
C25_Witness ==
    /\ key = "CtrlC"
    /\ user_input = <<>>
    /\ last_prompt = Some(<<"a">>)
    /\ HISTORY = << <<"b", "a">> >>
    /\ returned = None

\* C26: Tab and Enter run the same resolution walk.  Over every buffer, the
\* two walks end with the same classification (all tokens resolved, suspended
\* ambiguity, or invalid input) at the same tree node, also where a token
\* stands at a node whose positional argument has no enumerated values.
C26_TabAndEnterWalkAlike ==
    user_input # <<>> =>
        LET t == tab_walked(cmd_schema, user_input)
            e == enter_walked(cmd_schema, user_input)
        IN  /\ t.kind = e.kind
            /\ t.curr_cmd_schema = e.curr_cmd_schema

\* C27: prompt never appends the empty string to the history, whatever keys
\* were pressed (Enter on a buffer of whitespace included).
C27_NoEmptyHistoryEntry ==
    \A i \in 1..Len(HISTORY) : HISTORY[i] # <<>>

\* the handles inside add (from its compare-with-last to its push)
Adding == {h \in Handles : hpc[h] \in {"add", "add_push"}}

\* the handles inside get, up_next or down_next
Reading == {h \in Handles : hpc[h] \in {"get", "up_next", "down_next"}}

\* an add excludes every other add and every read
AddIsExclusive ==
    /\ Cardinality(Adding) <= 1
    /\ Adding # {} => Reading = {}

\* HISTORY changes only by the push of the handle inside add, which appends
\* that handle's line to the entries its compare-with-last saw
PushIsKept ==
    /\ HISTORY' # HISTORY =>
           \E h \in Handles :
               /\ hpc[h] = "add_push"
               /\ HISTORY' = Append(HISTORY, harg[h][1])
    /\ \A h \in Handles :
           (hpc[h] = "add_push" /\ hpc'[h] # "add_push")
               => (HISTORY' # <<>> /\ Last(HISTORY') = harg[h][1])
    /\ \A h \in Handles :
           (hpc[h] = "add" /\ hpc'[h] = "add_push")
               => (HISTORY = <<>> \/ Last(HISTORY) # harg[h][1])

\* C28: an add, from its compare-with-last to its push, excludes every other
\* add and every get/up_next/down_next; so under every interleaving of the
\* handles no push is lost and no two adjacent entries are equal.
C28_ReadersWriterDiscipline ==
    /\ [](AddIsExclusive /\ NoAdjacentDuplicates)
    /\ [][PushIsKept]_vars

\* one handle is about to push a line that differs from the only entry while
\* the other handle has an up_next behind it and waits
C28_Witness ==
    \E h, g \in Handles :
        /\ h # g
        /\ hpc[h] = "add_push"
        /\ Len(HISTORY) = 1
        /\ harg[h] # Some(HISTORY[1])
        /\ hpc[g] = "idle"
        /\ hret[g] = Some(HISTORY[1])

RECURSIVE UniqueMatches(_, _, _)
\* the matches of the tokens from the k-th on, as far as each token has exactly
\* one match at its tree position
UniqueMatches(tokens, k, node) ==
    IF k > Len(tokens) THEN <<>>
    ELSE LET matches == MatchesAt(node, tokens[k].word)
         IN  IF Cardinality(matches) # 1 THEN <<>>
             ELSE LET m == CHOOSE w \in matches : TRUE
                  IN  <<m>> \o UniqueMatches(tokens, k + 1,
                                   IF node.arguments # <<>> THEN node
                                   ELSE find_subcommand(node, m))

\* C29: whenever the Tab walk finds exactly one match for a token that is
\* shorter than the match, the buffer after that Tab holds the match in the
\* token's place, also when the buffer ends with whitespace at a node with
\* children or an argument and when a later token is ambiguous or invalid.
C29_TabCompletionReachesBuffer ==
    [][Handles_Key("Tab") =>
          LET tokens == split_whitespace(user_input)
              matches == UniqueMatches(tokens, 1, cmd_schema)
              after == split_whitespace(user_input')
          IN  \A k \in 1..Len(matches) :
                  Len(tokens[k].word) < Len(matches[k])
                      => (k <= Len(after) /\ after[k].word = matches[k])]_vars

\* the Tab walk stops at a token with no match, or with more than one match
\* and whitespace after it
TabHitsInvalidToken(buffer) ==
    LET tokens == split_whitespace(buffer)
        k == Len(UniqueMatches(tokens, 1, cmd_schema)) + 1
    IN  /\ k <= Len(tokens)
        /\ LET node == IF k = 1 THEN cmd_schema
                       ELSE Resolution(cmd_schema,
                                SubSeq(buffer, 1, tokens[k].idx)).node
               matches == MatchesAt(node, tokens[k].word)
           IN  \/ matches = {}
               \/ /\ Cardinality(matches) > 1
                  /\ FollowedByWhitespace(buffer, tokens[k].idx, tokens[k].word)

C31_FreeFormTokensAreVerbatim ==
    [][(/\ Handles_Key("Enter")
        /\ Resolution(cmd_schema, user_input).verbatim)
       => LET tokens == split_whitespace(user_input)
              n == Len(UniqueMatches(tokens, 1, cmd_schema))
          IN  /\ returned' # None
              /\ Len(returned'[1]) = Len(tokens)
              /\ \A k \in (n + 1)..Len(tokens) : returned'[1][k] = tokens[k].word
              /\ printed' \notin {"invalid", "missing"}]_vars

\* Enter on `ab b b`: `ab` takes a free-form argument, and both `b` went to
\* the caller as typed although no entry of any vocabulary is `b` there
C31_Witness ==
    /\ key = "Enter"
    /\ user_input = <<"a", "b", " ", "b", " ", "b">>
    /\ returned = Some(<< <<"a", "b">>, <<"b">>, <<"b">> >>)

\* C32: ArrowUp with the scroll index at 0 or with an empty history changes
\* neither the buffer nor the scroll index nor the pending snapshot; ArrowDown
\* with the scroll index at the length of the history and no snapshot pending
\* changes none of them either.
C32_ArrowsAtTheEndsChangeNothing ==
    [][(\/ /\ Handles_Key("ArrowUp")
           /\ (prompt_index = 0 \/ HISTORY = <<>>)
        \/ /\ Handles_Key("ArrowDown")
           /\ prompt_index = Len(HISTORY)
           /\ last_prompt = None)
       => /\ user_input' = user_input
          /\ prompt_index' = prompt_index
          /\ last_prompt' = last_prompt
          /\ HISTORY' = HISTORY
          /\ returned' = None]_vars

\* ArrowUp found the scroll index at 0 although the history has an entry (a
\* rejected line of this invocation): it took no snapshot and recalled nothing
C32_Witness ==
    /\ key = "ArrowUp"
    /\ HISTORY # <<>>
    /\ prompt_index = 0
    /\ last_prompt = None
    /\ user_input = <<"b">>

(***************************************************************************)
(* Properties of the loading() worker (SpecLoadingFair)                    *)
(***************************************************************************)
\* the worker has not reached the end of its warm-up sleep
WarmingUp == worker_pc \in {"none", "warmup"}

\* the flag is set and the worker has not yet tested it for the first time:
\* it is in its warm-up, or at the loop test with no glyph written so far
FlagSetBeforeFirstCheck ==
    /\ loading_done
    /\ ~cleared
    /\ ticks = 0
    /\ worker_pc \in {"warmup", "check"}

\* C33: the worker writes no tick before its warm-up delay has ended; under
\* fair scheduling it terminates once the flag is set, having written at most
\* one tick after the store; and when the flag is set before the worker's
\* first test of it, the worker never writes a tick.
C33_WorkerStopsAfterFlag ==
    /\ [](WarmingUp => ticks = 0)
    /\ [](ticks_after_store <= 1)
    /\ (loading_done ~> worker_pc = "exited")
    /\ [](FlagSetBeforeFirstCheck => [](ticks = 0 /\ ~tick_after_clear))

\* the worker had passed its test when the flag was stored: it wrote its one
\* further tick and then left the loop
C33_Witness ==
    /\ loading_done
    /\ ticks_after_store = 1
    /\ worker_pc = "exited"

(***************************************************************************)
(* Properties of the suggestion line (SpecScreen)                          *)
(***************************************************************************)
\* C34: whenever clear_line_below is called, a suggestion or message line is
\* displayed on the row directly below the cursor and the cursor is not on
\* the terminal's last row, so that the call clears that line and leaves the
\* cursor on the row it was on.
C34_ClearLineBelowClearsTheSuggestion ==
    cleared_below # None =>
        /\ cleared_below[1].message_below
        /\ ~cleared_below[1].last_row
        /\ cleared_below[1].moved = 0

(***************************************************************************)
(* Editing at the tail (Spec)                                              *)
(***************************************************************************)
\* the non-empty strings of at most MaxStr word, whitespace and punctuation
\* characters
NonEmptyStrings == StringsUpTo(MaxStr) \ {<<>>}

\* for every non-empty string the scan ends with an index inside the string
ScanStaysInside ==
    \A s \in NonEmptyStrings :
        /\ 0 <= str_rfind_last_word_separator(s)
        /\ str_rfind_last_word_separator(s) < Len(s)

\* what one key event does to the buffer
EditsAtTheTail ==
    /\ Handles_Key("Character") =>
           /\ Len(user_input') = Len(user_input) + 1
           /\ SubSeq(user_input', 1, Len(user_input)) = user_input
           /\ Last(user_input') \in PromptChars
    /\ (Handles_Key("Backspace") /\ user_input # <<>>) =>
           /\ Len(user_input') = Len(user_input) - 1
           /\ IsPrefixOf(user_input', user_input)
    /\ (Handles_Key("AltBackspace") /\ user_input # <<>>) =>
           /\ Len(user_input') < Len(user_input)
           /\ IsPrefixOf(user_input', user_input)
    /\ ((Handles_Key("Backspace") \/ Handles_Key("AltBackspace")) /\ user_input = <<>>) =>
           user_input' = <<>>

\* C35: editing is at the tail only.  Character(c) makes the buffer old+c;
\* plain Backspace on a non-empty buffer removes exactly the last character;
\* word-delete Backspace on a non-empty buffer leaves a proper prefix of it,
\* the scan of str_rfind_last_word_separator ending for every non-empty s
\* with 0 <= result < len(s); Backspace on an empty buffer leaves it empty.
C35_EditingIsAtTheTail ==
    [](ScanStaysInside) /\ [][EditsAtTheTail]_vars

\* a word delete left the front of the buffer, whitespace included
C35_Witness ==
    /\ key = "AltBackspace"
    /\ user_input # <<>>
    /\ \E i \in 1..Len(user_input) : user_input[i] = " "

(***************************************************************************)
(* Entering a vocabulary entry in full (SpecAnyTree)                       *)
(***************************************************************************)
\* the buffer's last token is an entry of the vocabulary at the position the
\* tokens before it lead to
LastTokenIsAnEntry(buffer) ==
    LET tokens == split_whitespace(buffer)
        n == Len(tokens)
    IN  /\ n > 0
        /\ LET before == Resolution(cmd_schema, SubSeq(buffer, 1, tokens[n].idx))
           IN  /\ before.outcome = "resolved"
               /\ tokens[n].word \in VocabularyAt(before.node)

====
